---- MODULE Spec2Model ----
(***************************************************************************)
(* Model of scripts/wand_probe.py: the run orchestrator (main), the probe  *)
(* driver with its two debounce timers (quick_probe) and the parsing of    *)
(* the kind:version entries (parse_version_entry).                         *)
(*                                                                         *)
(* Time is counted in ticks of 250 ms, the sleep interval of the polling   *)
(* loop.  Every call of time.time() is a separate read of a clock that     *)
(* never runs backwards; within one loop iteration the reads may fall     *)
(* behind by up to `jitter` ticks in total, a property of the machine the  *)
(* run is on.  Only differences of clock values matter to the program, so  *)
(* the clock of each probe is counted from Epoch at its launch.            *)
(* Strings that the program takes apart are sequences of one-character     *)
(* strings; messages are sequences of words.                               *)
(***************************************************************************)
EXTENDS Integers, Sequences, FiniteSets, TLC

VARIABLES
    versions,             \* args.versions: the entries given on the command line
    observe_timeout,      \* args.observe_timeout, in ticks
    renderer_stable_sec,  \* args.renderer_stable_sec, in ticks
    black_pattern_sec,    \* args.black_pattern_sec, in ticks
    pc,                   \* position of main / quick_probe
    parsed_versions,      \* main: the list built by lines 231-233
    idx,                  \* main: position of the for loop of line 237
    out,                  \* lines printed on stdout
    exe_exists,           \* whether install_dir holds a WeMod.exe
    proc,                 \* the child of the running probe: "none", "running", "killed"
    jitter,               \* how far the clock reads of one iteration may fall behind
    clock,                \* the value of the latest time.time() read
    start,                \* quick_probe: start
    renderer_since,       \* quick_probe: renderer_since
    black_since,          \* quick_probe: black_since
    state,                \* quick_probe: state, while a later statement can read it
    result,               \* what quick_probe returned (or None)
    events,               \* log of launches, kills, teardowns, returns and records
    procfs,               \* the entries of /proc that inspect_state walks through
    obs                   \* observer of the snapshots fed to the current probe

vars == <<versions, observe_timeout, renderer_stable_sec, black_pattern_sec, pc,
          parsed_versions, idx, out, exe_exists, proc, jitter, clock, start, renderer_since,
          black_since, state, result, events, procfs, obs>>

-----------------------------------------------------------------------------
(* Bounds of the model *)
MaxVersions == 2
MaxCount == 1
MaxDelay == 1
MaxTimeout == 3
MaxThreshold == 2
ScenarioTimeout == 10
MaxProcs == 2

(* Program constants, in ticks of 250 ms *)
SleepTicks == 1
DefaultRendererStable == 8
DefaultBlackPattern == 8
Epoch == 1
None == -1

-----------------------------------------------------------------------------
(* parse_version_entry *)

EntryWand == <<"w", "a", "n", "d", ":", "1">>
EntryWeMod == <<"W", "e", "M", "o", "d", " ", ":", " ", "1", ":", "2", " ">>
EntryNoColon == <<"w", "a", "n", "d">>
EntryBadKind == <<"w", "i", "n", "e", ":", "1">>
EntryNoVersion == <<"w", "a", "n", "d", ":", " ">>

EntryPool == {EntryWand, EntryWeMod, EntryNoColon, EntryBadKind, EntryNoVersion}

KindWand == <<"w", "a", "n", "d">>
KindWeMod == <<"w", "e", "m", "o", "d">>

IsSpace(c) == c = " "

RECURSIVE LStrip(_)
LStrip(s) == IF s # <<>> /\ IsSpace(Head(s)) THEN LStrip(Tail(s)) ELSE s

RECURSIVE RStrip(_)
RStrip(s) ==
    IF s # <<>> /\ IsSpace(s[Len(s)]) THEN RStrip(SubSeq(s, 1, Len(s) - 1)) ELSE s

Strip(s) == RStrip(LStrip(s))

LowerChar(c) ==
    CASE c = "W" -> "w"
      [] c = "M" -> "m"
      [] OTHER -> c

Lower(s) == [k \in 1..Len(s) |-> LowerChar(s[k])]

\* index of the first ":" of s, 0 when there is none
FirstColon(s) ==
    IF \E k \in 1..Len(s) : s[k] = ":"
    THEN CHOOSE k \in 1..Len(s) : s[k] = ":" /\ \A j \in 1..(k - 1) : s[j] # ":"
    ELSE 0

ParseVersionEntry(entry) ==
    IF FirstColon(entry) = 0
    THEN [ok |-> FALSE, error |-> <<"invalid", "version", "entry">>]
    ELSE LET c == FirstColon(entry)
             kind == Lower(Strip(SubSeq(entry, 1, c - 1)))
             version == Strip(SubSeq(entry, c + 1, Len(entry)))
         IN  IF kind \notin {KindWand, KindWeMod}
             THEN [ok |-> FALSE, error |-> <<"invalid", "kind">>]
             ELSE IF version = <<>>
             THEN [ok |-> FALSE, error |-> <<"missing", "version">>]
             ELSE [ok |-> TRUE, kind |-> kind, version |-> version]

ParsedOk(entries) == \A k \in 1..Len(entries) : ParseVersionEntry(entries[k]).ok

ParsedVersions(entries) ==
    [k \in 1..Len(entries) |->
        <<ParseVersionEntry(entries[k]).kind, ParseVersionEntry(entries[k]).version>>]

-----------------------------------------------------------------------------
(* inspect_state, as far as quick_probe uses it: the four role counts *)

Snapshots == [main : 0..MaxCount, renderer : 0..MaxCount,
              gpu : 0..MaxCount, utility : 0..MaxCount]

NoState == [main |-> 0, renderer |-> 0, gpu |-> 0, utility |-> 0]

\* the words of the command lines of the model
Wine == <<"w", "i", "n", "e">>
ExeWeMod == <<"/", "W", "e", "M", "o", "d", ".", "e", "x", "e">>
ExeWand == <<"W", "a", "n", "d", ".", "e", "x", "e">>
ArgRenderer == <<"-", "-", "t", "y", "p", "e", "=", "r", "e", "n", "d", "e", "r", "e", "r">>
ArgGpu == <<"-", "-", "t", "y", "p", "e", "=", "g", "p", "u", "-", "p", "r", "o", "c", "e", "s", "s">>
ArgUtility == <<"-", "-", "t", "y", "p", "e", "=", "u", "t", "i", "l", "i", "t", "y">>

\* the byte 0 that ends every argument of /proc/<pid>/cmdline
Nul == "NUL"

\* the contents of a cmdline file: every argument followed by Nul
RECURSIVE Cmdline(_)
Cmdline(argv) ==
    IF argv = <<>> THEN <<>> ELSE Head(argv) \o <<Nul>> \o Cmdline(Tail(argv))

CmdKernel == <<>>
CmdOtherRenderer == Cmdline(<<Wine, ArgRenderer>>)
CmdWineWeMod == Cmdline(<<Wine, ExeWeMod>>)
CmdWand == Cmdline(<<ExeWand>>)
CmdRenderer == Cmdline(<<ExeWeMod, ArgRenderer>>)
CmdGpu == Cmdline(<<ExeWeMod, ArgGpu>>)
CmdUtility == Cmdline(<<ExeWand, ArgUtility>>)
CmdUtilityRenderer == Cmdline(<<ExeWeMod, ArgUtility, ArgRenderer>>)
CmdUtilityGpu == Cmdline(<<ExeWeMod, ArgUtility, ArgGpu>>)

CmdlinePool ==
    {CmdKernel, CmdOtherRenderer, CmdWineWeMod, CmdWand, CmdRenderer, CmdGpu,
     CmdUtility, CmdUtilityRenderer, CmdUtilityGpu}

\* an entry of /proc: whether it is a directory with a number for its name,
\* whether its cmdline can be read, and what the cmdline holds
ProcEntries == [pid : BOOLEAN, readable : BOOLEAN, raw : CmdlinePool]

\* line 147: raw.replace(b"\x00", b" ") ... .lower()
Text(raw) == Lower([k \in 1..Len(raw) |-> IF raw[k] = Nul THEN " " ELSE raw[k]])

\* `needle in text` of lines 148-155
Contains(text, needle) ==
    \E k \in 1..(Len(text) - Len(needle) + 1) :
        SubSeq(text, k, k + Len(needle) - 1) = needle

\* line 148: the command line names the application
NamesApp(text) == Contains(text, Lower(ExeWand)) \/ Contains(text, Lower(Tail(ExeWeMod)))

\* Role with the markers looked for in the reverse order
RoleUtilityFirst(text) ==
    IF Contains(text, ArgUtility) THEN "utility"
    ELSE IF Contains(text, ArgGpu) THEN "gpu"
    ELSE IF Contains(text, ArgRenderer) THEN "renderer"
    ELSE "main"

\* lines 151-158: the role of a process of the application
Role(text) ==
    IF Contains(text, ArgRenderer) THEN "renderer"
    ELSE IF Contains(text, ArgGpu) THEN "gpu"
    ELSE IF Contains(text, ArgUtility) THEN "utility"
    ELSE "main"

\* lines 137-149: the entries the loop passes over
Skipped(entry) ==
    \/ ~entry.pid
    \/ ~entry.readable
    \/ entry.raw = <<>>
    \/ ~NamesApp(Text(entry.raw))

\* lines 136-158: the loop over the entries from the k-th on
RECURSIVE Scan(_, _, _)
Scan(table, k, s) ==
    IF k > Len(table) THEN s
    ELSE IF Skipped(table[k]) THEN Scan(table, k + 1, s)
    ELSE LET role == Role(Text(table[k].raw))
         IN  Scan(table, k + 1, [s EXCEPT ![role] = @ + 1])

\* lines 134-160
InspectState(table) == Scan(table, 1, NoState)

-----------------------------------------------------------------------------
(* quick_probe: the pieces of one loop iteration *)

RendererCondition(s) == s["renderer"] > 0

\* BlackCondition without the test of line 203
BlackConditionAnyRenderer(s) == s["main"] > 0 /\ s["gpu"] > 0 /\ s["utility"] > 0

BlackCondition(s) ==
    s["main"] > 0 /\ s["gpu"] > 0 /\ s["utility"] > 0 /\ s["renderer"] = 0

\* Arm with the timer started anew by every poll that shows the condition
ArmRestart(cond, since, now) == IF cond THEN now ELSE None

\* Arm without a look at the condition
ArmAlways(cond, since, now) == IF since = None THEN now ELSE since

\* Arm without the else branches of lines 196-197 and 207-208
ArmSticky(cond, since, now) ==
    IF cond THEN (IF since = None THEN now ELSE since) ELSE since

\* lines 193-197 and 199-208: arm at `now` when unarmed, keep when armed, disarm
Arm(cond, since, now) ==
    IF cond THEN (IF since = None THEN now ELSE since) ELSE None

\* Python truth value of a timer: None and 0.0 are false
Truthy(since) == since # None /\ since # 0

\* Elapsed with > for >=
ElapsedStrict(since, now, threshold) == Truthy(since) /\ (now - since) > threshold

\* Elapsed measured from the start of the probe instead of the arm time
ElapsedSinceStart(since, now, threshold) ==
    Truthy(since) /\ (now - start) >= threshold

\* lines 210 and 213: `since and (time.time() - since) >= threshold`
Elapsed(since, now, threshold) == Truthy(since) /\ (now - since) >= threshold

\* the loop condition of line 190 with <= for <
LoopContinuesInclusive(now, begun, timeout) == now - begun <= timeout

\* the loop of line 190 as `while True`
LoopForever(now, begun, timeout) == TRUE

\* line 190: the loop condition, with `now` the value time.time() returned
LoopContinues(now, begun, timeout) == now - begun < timeout

NoResult == [kind |-> "none"]

Returned(status, msg, s) ==
    [kind |-> "return", status |-> status, msg |-> msg, state |-> s]

Raised(msg) == [kind |-> "raise", msg |-> msg]

MsgMissing == <<"WeMod.exe", "missing", "after", "install">>
MsgStarted == <<"renderer", "stable">>
MsgBlack == <<"main+gpu+utility", "without", "renderer">>
MsgTimeout == <<"no", "stable", "renderer", "within">>

\* Verdict with details that leave out the snapshot
VerdictWithoutState(rs, bs, tr, tb, rthr, bthr, s) ==
    IF Elapsed(rs, tr, rthr) THEN Returned("STARTED", MsgStarted, NoState)
    ELSE IF Elapsed(bs, tb, bthr) THEN Returned("BLACK_PATTERN", MsgBlack, NoState)
    ELSE NoResult

\* Verdict with the black-pattern check of lines 213-214 placed first
VerdictBlackFirst(rs, bs, tr, tb, rthr, bthr, s) ==
    IF Elapsed(bs, tb, bthr) THEN Returned("BLACK_PATTERN", MsgBlack, s)
    ELSE IF Elapsed(rs, tr, rthr) THEN Returned("STARTED", MsgStarted, s)
    ELSE NoResult

\* Verdict with line 213 comparing against renderer_stable_sec
VerdictOneThreshold(rs, bs, tr, tb, rthr, bthr, s) ==
    IF Elapsed(rs, tr, rthr) THEN Returned("STARTED", MsgStarted, s)
    ELSE IF Elapsed(bs, tb, rthr) THEN Returned("BLACK_PATTERN", MsgBlack, s)
    ELSE NoResult

\* lines 210-214: the two verdict checks of one iteration, renderer first;
\* tr and tb are the values the two time.time() calls return
Verdict(rs, bs, tr, tb, rthr, bthr, s) ==
    IF Elapsed(rs, tr, rthr) THEN Returned("STARTED", MsgStarted, s)
    ELSE IF Elapsed(bs, tb, bthr) THEN Returned("BLACK_PATTERN", MsgBlack, s)
    ELSE NoResult

\* the finally block without proc.kill()
FinallyWithoutKill(i) == <<[e |-> "teardown", i |-> i]>>

\* the finally block with the two calls in the other order
FinallyTeardownFirst(i) == <<[e |-> "teardown", i |-> i], [e |-> "kill", i |-> i]>>

\* lines 220-225: the finally block of probe i: proc.kill(), then kill_wemod_processes()
FinallyEvents(i) == <<[e |-> "kill", i |-> i], [e |-> "teardown", i |-> i]>>

-----------------------------------------------------------------------------
(* Observer of one probe: what the snapshots fed to the polling loop showed, *)
(* kept apart from the timers of the code.                                   *)
(*   rFrom, bFrom: when the present unbroken run of polls showing the        *)
(*     condition began (the time of that poll's arm statement), or None      *)
(*   rPolls, bPolls: the number of polls of that run                         *)
(*   rFalseAt, bFalseAt: when the latest poll not showing the condition ran  *)
(*   rBroken, bBroken: some run was ended by a poll not showing the condition*)
(*   rSat, bSat: at the verdict check of some poll the run had lasted the     *)
(*     threshold                                                             *)
(*   last: the snapshot of the latest inspect_state call whose result the    *)
(*     probe went on to use in a verdict                                     *)
(*   begun: what the loop condition read at the start of the poll that       *)
(*     returned a verdict                                                    *)

ObsInit ==
    [rFrom |-> None, bFrom |-> None, rPolls |-> 0, bPolls |-> 0,
     rFalseAt |-> None, bFalseAt |-> None, rBroken |-> FALSE,
     bBroken |-> FALSE, rSat |-> FALSE, bSat |-> FALSE,
     last |-> NoState, begun |-> None]

ObsPoll(o, s, t0, t1, t2, t3, t4, ended) ==
    LET rIn == s["renderer"] > 0
        bIn == s["main"] > 0 /\ s["gpu"] > 0 /\ s["utility"] > 0 /\ s["renderer"] = 0
        rFrom == IF rIn THEN (IF o.rFrom = None THEN t1 ELSE o.rFrom) ELSE None
        bFrom == IF bIn THEN (IF o.bFrom = None THEN t2 ELSE o.bFrom) ELSE None
    IN  [rFrom |-> rFrom, bFrom |-> bFrom,
         rPolls |-> IF rIn THEN o.rPolls + 1 ELSE 0,
         bPolls |-> IF bIn THEN o.bPolls + 1 ELSE 0,
         rFalseAt |-> IF rIn THEN o.rFalseAt ELSE t1,
         bFalseAt |-> IF bIn THEN o.bFalseAt ELSE t2,
         rBroken |-> o.rBroken \/ (~rIn /\ o.rPolls >= 1),
         bBroken |-> o.bBroken \/ (~bIn /\ o.bPolls >= 1),
         rSat |-> o.rSat \/ (rIn /\ t3 - rFrom >= renderer_stable_sec),
         bSat |-> o.bSat \/ (bIn /\ t4 - bFrom >= black_pattern_sec),
         last |-> IF ended THEN s ELSE NoState,
         begun |-> IF ended THEN t0 ELSE None]

-----------------------------------------------------------------------------
(* main *)

Header == <<"kind", "version", "status", "summary">>

\* Record with kind and version in each other's column
RecordSwapped(kv, status, summary) == <<kv[2], kv[1], status, summary>>

\* lines 249, 251: kind,version,status,summary (the summary: the message; the
\* role counts a verdict's detail ends with stay in `result`)
Record(kv, status, summary) == <<kv[1], kv[2], status, summary>>

Ev(e, i) == [e |-> e, i |-> i]

\* a run's observe_timeout, renderer_stable_sec, black_pattern_sec and jitter:
\* every small combination, and the default thresholds with polls exactly
\* SleepTicks apart
ProbeRuns ==
    ((1..MaxTimeout) \X (1..MaxThreshold) \X (1..MaxThreshold) \X (0..MaxDelay))
        \cup {<<ScenarioTimeout, DefaultRendererStable, DefaultBlackPattern, 0>>}

MainRuns == {<<MaxTimeout, MaxThreshold, MaxThreshold, 0>>}

VersionLists == UNION {[1..n -> EntryPool] : n \in 1..MaxVersions}

Start(lists, runs) ==
    /\ versions \in lists
    /\ \E p \in runs :
          /\ observe_timeout = p[1]
          /\ renderer_stable_sec = p[2]
          /\ black_pattern_sec = p[3]
          /\ jitter = p[4]
    /\ pc = "parse"
    /\ parsed_versions = <<>>
    /\ idx = 0
    /\ out = <<>>
    /\ exe_exists = FALSE
    /\ proc = "none"
    /\ clock = Epoch
    /\ start = None
    /\ renderer_since = None
    /\ black_since = None
    /\ state = NoState
    /\ result = NoResult
    /\ events = <<>>
    /\ procfs = <<>>
    /\ obs = ObsInit

\* a run over any list of entries
Init == Start(VersionLists, MainRuns)

\* a run over one well-formed entry, with any thresholds and jitter
InitProbe == Start({<<EntryWand>>}, ProbeRuns)

probeVars == <<proc, start, renderer_since, black_since, state, result, obs>>
argVars == <<versions, observe_timeout, renderer_stable_sec, black_pattern_sec,
             jitter>>
mainVars == <<parsed_versions, idx, out, exe_exists>>

\* lines 231-233: every entry is parsed before anything is printed; a ValueError
\* of parse_version_entry is not caught and ends the program
ParseVersions ==
    /\ pc = "parse"
    /\ IF ParsedOk(versions)
       THEN /\ parsed_versions' = ParsedVersions(versions)
            /\ pc' = "header"
       ELSE /\ pc' = "aborted"
            /\ UNCHANGED parsed_versions
    /\ UNCHANGED <<argVars, procfs, idx, out, exe_exists, clock, events,
                   probeVars>>

\* line 235
PrintHeader ==
    /\ pc = "header"
    /\ out' = Append(out, Header)
    /\ idx' = 1
    /\ pc' = "loop"
    /\ UNCHANGED <<argVars, procfs, parsed_versions, exe_exists, clock, events,
                   probeVars>>

\* lines 237-238: the next version, kill_wemod_processes() first
LoopTeardown ==
    /\ pc = "loop"
    /\ idx <= Len(parsed_versions)
    /\ events' = Append(events, Ev("teardown", idx))
    /\ pc' = "provision"
    /\ UNCHANGED <<argVars, procfs, mainVars, clock, probeVars>>

\* PrintedRecord with the except clause of main printing its own status word
PrintedRecordFailed(kv, r) ==
    Record(kv, IF r.kind = "return" THEN r.status ELSE "FAILED", r.msg)

\* line 249 and line 251: the record main prints for version i
PrintedRecord(kv, r) ==
    Record(kv, IF r.kind = "return" THEN r.status ELSE "ERROR", r.msg)

\* what download_if_needed (curl fails, line 75) and install_nupkg (line 100)
\* raise
ProvisionErrors == {<<"CalledProcessError", "curl">>, <<"no", "lib/net*", "payload">>}

\* lines 240-241: download_if_needed and install_nupkg; either may raise, and
\* the except clause of main (lines 250-251) then prints the record.  What
\* install_nupkg copies is whatever the package holds: a WeMod.exe or none.
Provision ==
    /\ pc = "provision"
    /\ \/ /\ pc' = "probe"
          /\ exe_exists' \in BOOLEAN
          /\ UNCHANGED <<out, events, idx>>
       \/ \E msg \in ProvisionErrors :
             /\ out' = Append(out, PrintedRecord(parsed_versions[idx], Raised(msg)))
             /\ events' = Append(events, Ev("record", idx))
             /\ idx' = idx + 1
             /\ pc' = "loop"
             /\ UNCHANGED exe_exists
    /\ UNCHANGED <<argVars, procfs, parsed_versions, clock, probeVars>>

\* quick_probe without the check of lines 171-172
ExeMissingIgnored(exists) == FALSE

\* line 171: `if not exe.exists()`
ExeMissing(exists) == ~exists

\* lines 170-187: quick_probe up to the loop.  Whether wine can be started is
\* the environment's choice.
ProbeStart ==
    /\ pc = "probe"
    /\ \/ /\ ExeMissing(exe_exists)
          /\ result' = Returned("ERROR", MsgMissing, NoState)
          /\ events' = Append(events, Ev("return", idx))
          /\ pc' = "print"
          /\ UNCHANGED <<proc, start, renderer_since, black_since, state, obs>>
       \/ /\ ~ExeMissing(exe_exists)
          /\ result' = Raised(<<"FileNotFoundError", "wine">>)
          /\ events' = Append(events, Ev("return", idx))
          /\ pc' = "print"
          /\ UNCHANGED <<proc, start, renderer_since, black_since, state, obs>>
       \/ /\ ~ExeMissing(exe_exists)
          /\ proc' = "running"
          /\ events' = Append(events, Ev("launch", idx))
          /\ start' = clock
          /\ renderer_since' = None
          /\ black_since' = None
          /\ obs' = ObsInit
          /\ pc' = "poll"
          /\ UNCHANGED <<state, result>>
    /\ UNCHANGED <<argVars, procfs, mainVars, clock>>

\* the values a time.time() call can return after a read of `from`, when the
\* call is executed at all
Reads(called, from) == IF called THEN from..(clock + jitter) ELSE {from}

\* lines 190-216: one iteration of the polling loop.  t0 is the time read by the
\* loop condition; t1 and t2 are read by the arm statements (lines 195, 206),
\* t3 and t4 by the verdict checks (lines 210, 213), each only when its call is
\* executed.  inspect_state runs between t0 and t1 and may raise.  A snapshot
\* that leads to no verdict is never read again: line 191 or 218 replaces it.
Poll ==
    /\ pc = "poll"
    /\ \E t0 \in Reads(TRUE, clock) :
          /\ LoopContinues(t0, start, observe_timeout)
          /\ \/ /\ result' = Raised(<<"OSError", "/proc">>)
                /\ clock' = t0
                /\ pc' = "finally"
                /\ UNCHANGED <<renderer_since, black_since, state, obs>>
             \/ \E s \in Snapshots :
                \E t1 \in Reads(RendererCondition(s) /\ renderer_since = None, t0) :
                \E t2 \in Reads(BlackCondition(s) /\ black_since = None, t1) :
                   LET rs == Arm(RendererCondition(s), renderer_since, t1)
                       bs == Arm(BlackCondition(s), black_since, t2)
                   IN  \E t3 \in Reads(Truthy(rs), t2) :
                       \E t4 \in Reads(Truthy(bs) /\ ~Elapsed(rs, t3, renderer_stable_sec),
                                       t3) :
                          LET v == Verdict(rs, bs, t3, t4, renderer_stable_sec,
                                           black_pattern_sec, s)
                          IN  /\ renderer_since' = rs
                              /\ black_since' = bs
                              /\ obs' = ObsPoll(obs, s, t0, t1, t2, t3, t4,
                                                v.kind = "return")
                              /\ IF v.kind = "return"
                                 THEN /\ result' = v
                                      /\ state' = s
                                      /\ clock' = t4
                                      /\ pc' = "finally"
                                 ELSE /\ result' = result
                                      /\ state' = NoState
                                      /\ clock' = t4 + SleepTicks
                                      /\ pc' = "poll"
    /\ UNCHANGED <<argVars, procfs, mainVars, proc, start, events>>

\* TIMEOUT built from the snapshot the loop left behind, without line 218
TimeoutStale(fresh, stale) == Returned("TIMEOUT", MsgTimeout, stale)

\* line 219: the TIMEOUT verdict carries the snapshot of line 218, not the
\* one of the last iteration
TimeoutResult(fresh, stale) == Returned("TIMEOUT", MsgTimeout, fresh)

\* lines 190, 218-219: the loop condition fails; one more snapshot, TIMEOUT
Deadline ==
    /\ pc = "poll"
    /\ \E t0 \in Reads(TRUE, clock) :
          /\ ~LoopContinues(t0, start, observe_timeout)
          /\ clock' = t0
          /\ \/ /\ result' = Raised(<<"OSError", "/proc">>)
                /\ UNCHANGED <<state, obs>>
             \/ \E s \in Snapshots :
                   /\ state' = s
                   /\ obs' = [obs EXCEPT !.last = s]
                   /\ result' = TimeoutResult(s, state)
    /\ pc' = "finally"
    /\ UNCHANGED <<argVars, procfs, mainVars, proc, start, renderer_since, black_since,
                   events>>

\* lines 220-225, then the return or the raise reaches main
Finally ==
    /\ pc = "finally"
    /\ proc' = "killed"
    /\ events' = events \o FinallyEvents(idx) \o <<Ev("return", idx)>>
    /\ pc' = "print"
    /\ UNCHANGED <<argVars, procfs, mainVars, clock, start, renderer_since, black_since,
                   state, result, obs>>

\* line 249, or line 251 when quick_probe raised: the record of version idx.
\* quick_probe's frame is gone, and the next probe counts its clock anew.
PrintRecord ==
    /\ pc = "print"
    /\ out' = Append(out, PrintedRecord(parsed_versions[idx], result))
    /\ events' = Append(events, Ev("record", idx))
    /\ idx' = idx + 1
    /\ pc' = "loop"
    /\ proc' = "none"
    /\ clock' = Epoch
    /\ start' = None
    /\ renderer_since' = None
    /\ black_since' = None
    /\ state' = NoState
    /\ result' = NoResult
    /\ obs' = ObsInit
    /\ UNCHANGED <<argVars, procfs, parsed_versions, exe_exists>>

\* main without the call of line 253
FinalTeardownSkipped ==
    /\ pc = "loop"
    /\ idx > Len(parsed_versions)
    /\ pc' = "done"
    /\ UNCHANGED <<argVars, procfs, mainVars, clock, probeVars, events>>

\* line 253
FinalTeardown ==
    /\ pc = "loop"
    /\ idx > Len(parsed_versions)
    /\ events' = Append(events, Ev("teardown", idx))
    /\ pc' = "done"
    /\ UNCHANGED <<argVars, procfs, mainVars, clock, probeVars>>

Next ==
    \/ ParseVersions
    \/ PrintHeader
    \/ LoopTeardown
    \/ Provision
    \/ ProbeStart
    \/ Poll
    \/ Deadline
    \/ Finally
    \/ PrintRecord
    \/ FinalTeardown

Spec == Init /\ [][Next]_vars

SpecProbe == InitProbe /\ [][Next]_vars

\* the runs of one probe with both thresholds MaxThreshold
LiveRuns == (1..MaxTimeout) \X {MaxThreshold} \X {MaxThreshold} \X (0..MaxDelay)

InitLive == Start({<<EntryWand>>}, LiveRuns)

\* The program is one thread that runs until it ends: its next statement is
\* always executed, and time.sleep(0.25) of line 216 returns.
SpecLive == InitLive /\ [][Next]_vars /\ WF_vars(Next)

-----------------------------------------------------------------------------
(* The verdict checks of lines 210-214 on their own: any pair of timer      *)
(* values, also pairs the arm statements never leave behind, at one poll    *)
(* whose clock reads all return `clock`.                                    *)

Times == Epoch..(Epoch + MaxThreshold + MaxDelay)

InitVerdict ==
    /\ versions = <<EntryWand>>
    /\ observe_timeout = MaxTimeout
    /\ renderer_stable_sec \in 1..MaxThreshold
    /\ black_pattern_sec \in 1..MaxThreshold
    /\ jitter = 0
    /\ pc = "checks"
    /\ parsed_versions = ParsedVersions(versions)
    /\ idx = 1
    /\ out = <<Header>>
    /\ exe_exists = TRUE
    /\ proc = "running"
    /\ clock \in Times
    /\ start = Epoch
    /\ renderer_since \in {None} \cup {t \in Times : t <= clock}
    /\ black_since \in {None} \cup {t \in Times : t <= clock}
    /\ state \in Snapshots
    /\ result = NoResult
    /\ events = <<Ev("teardown", 1), Ev("launch", 1)>>
    /\ procfs = <<>>
    /\ obs = ObsInit

VerdictChecks ==
    /\ pc = "checks"
    /\ result' = Verdict(renderer_since, black_since, clock, clock,
                         renderer_stable_sec, black_pattern_sec, state)
    /\ pc' = "checked"
    /\ UNCHANGED <<argVars, procfs, mainVars, proc, clock, start, renderer_since,
                   black_since, state, events, obs>>

SpecVerdict == InitVerdict /\ [][VerdictChecks]_vars

-----------------------------------------------------------------------------
(* inspect_state on its own: one call over any table of up to MaxProcs      *)
(* entries.                                                                 *)

ProcTables == UNION {[1..n -> ProcEntries] : n \in 0..MaxProcs}

InitInspect ==
    /\ versions = <<EntryWand>>
    /\ observe_timeout = MaxTimeout
    /\ renderer_stable_sec = MaxThreshold
    /\ black_pattern_sec = MaxThreshold
    /\ jitter = 0
    /\ pc = "inspect"
    /\ parsed_versions = ParsedVersions(versions)
    /\ idx = 1
    /\ out = <<Header>>
    /\ exe_exists = TRUE
    /\ proc = "running"
    /\ clock = Epoch
    /\ start = Epoch
    /\ renderer_since = None
    /\ black_since = None
    /\ state = NoState
    /\ result = NoResult
    /\ events = <<Ev("teardown", 1), Ev("launch", 1)>>
    /\ procfs \in ProcTables
    /\ obs = ObsInit

\* line 191
Inspect ==
    /\ pc = "inspect"
    /\ state' = InspectState(procfs)
    /\ pc' = "inspected"
    /\ UNCHANGED <<argVars, procfs, mainVars, proc, clock, start, renderer_since,
                   black_since, result, events, obs>>

SpecInspect == InitInspect /\ [][Inspect]_vars

-----------------------------------------------------------------------------
(* Properties *)

\* the probe has ended with the verdict x
Verdicted(x) ==
    pc \in {"finally", "print"} /\ result.kind = "return" /\ result.status = x

HasWord(msg, w) == \E k \in 1..Len(msg) : msg[k] = w

\* C1: when the polls have shown renderer > 0 without a break for at least
\* renderer_stable_sec, measured by the probe's clock from the arm statement of
\* the first of these polls to the verdict check of the latest, the probe has
\* ended with STARTED; for every observe_timeout and threshold of the run.
C1_StableRendererStarts == obs.rSat => Verdicted("STARTED")

C1_Witness ==
    /\ Verdicted("STARTED")
    /\ obs.rSat
    /\ obs.rPolls >= 3
    /\ renderer_stable_sec < observe_timeout
    /\ renderer_stable_sec # DefaultRendererStable

\* C2: when the polls have shown main > 0, gpu > 0, utility > 0 and renderer = 0
\* without a break for at least black_pattern_sec, and the renderer run has not
\* lasted its threshold, the probe has ended with BLACK_PATTERN.
C2_StableBlackPattern == (obs.bSat /\ ~obs.rSat) => Verdicted("BLACK_PATTERN")

C2_Witness ==
    /\ Verdicted("BLACK_PATTERN")
    /\ obs.bSat
    /\ obs.bPolls >= 3
    /\ black_pattern_sec < observe_timeout

\* C3: STARTED is emitted only when the unbroken run of polls showing
\* renderer > 0 spans at least renderer_stable_sec; with polls exactly
\* SleepTicks (250 ms) apart that run holds at least threshold/SleepTicks + 1
\* polls, so with the threshold of 2.0 s not before poll 8 counted from 0.
C3_StartedNotBeforeThreshold ==
    Verdicted("STARTED") =>
        /\ obs.rFrom # None
        /\ clock - obs.rFrom >= renderer_stable_sec
        /\ jitter = 0 => (obs.rPolls - 1) * SleepTicks >= renderer_stable_sec

C3_Witness ==
    /\ Verdicted("STARTED")
    /\ renderer_stable_sec = DefaultRendererStable
    /\ jitter = 0
    /\ obs.rPolls = 9
    /\ clock - start = 8 * SleepTicks

\* C4: BLACK_PATTERN is emitted only when the unbroken run of polls showing the
\* black-pattern condition spans at least black_pattern_sec; with polls exactly
\* 250 ms apart and the threshold of 2.0 s not before poll 8 counted from 0.
C4_BlackNotBeforeThreshold ==
    Verdicted("BLACK_PATTERN") =>
        /\ obs.bFrom # None
        /\ clock - obs.bFrom >= black_pattern_sec
        /\ jitter = 0 => (obs.bPolls - 1) * SleepTicks >= black_pattern_sec

C4_Witness ==
    /\ Verdicted("BLACK_PATTERN")
    /\ black_pattern_sec = DefaultBlackPattern
    /\ jitter = 0
    /\ obs.bPolls = 9
    /\ clock - start = 8 * SleepTicks

\* C5 as stated: a verdict comes no sooner than its threshold after the latest
\* poll that showed its condition false, and a condition that alternates on
\* every poll (every run of it is one poll long) never yields its verdict.
C5_FlickerNeverYields ==
    /\ Verdicted("STARTED") =>
          /\ obs.rFalseAt # None => clock - obs.rFalseAt >= renderer_stable_sec
          /\ obs.rPolls >= 2
    /\ Verdicted("BLACK_PATTERN") =>
          /\ obs.bFalseAt # None => clock - obs.bFalseAt >= black_pattern_sec
          /\ obs.bPolls >= 2

\* C5 amended: a verdict comes no sooner than its threshold after the latest
\* poll that showed its condition false, and a run of a single poll yields the
\* verdict only when the threshold is no longer than the time that one
\* iteration can spend between its arm statement and its verdict check.
C5_FalsePollResets ==
    /\ Verdicted("STARTED") =>
          /\ obs.rFalseAt # None => clock - obs.rFalseAt >= renderer_stable_sec
          /\ renderer_stable_sec > jitter => obs.rPolls >= 2
    /\ Verdicted("BLACK_PATTERN") =>
          /\ obs.bFalseAt # None => clock - obs.bFalseAt >= black_pattern_sec
          /\ black_pattern_sec > jitter => obs.bPolls >= 2

\* a run, a poll that breaks it, a second run: together longer than the
\* threshold, and no verdict
C5_Witness ==
    /\ pc = "poll"
    /\ obs.rBroken
    /\ obs.rPolls >= 1
    /\ renderer_since > start
    /\ clock - start >= 2 * renderer_stable_sec
    /\ result = NoResult

\* C6: whatever the black-pattern timer holds, a poll whose renderer timer is
\* armed and has reached renderer_stable_sec returns STARTED, so also when
\* both timers reach their thresholds in the same poll.
C6_RendererPrecedence ==
    (/\ pc = "checked"
     /\ renderer_since \notin {None, 0}
     /\ clock - renderer_since >= renderer_stable_sec)
        => (result.kind = "return" /\ result.status = "STARTED")

C6_Witness ==
    /\ pc = "checked"
    /\ renderer_since # None
    /\ clock - renderer_since >= renderer_stable_sec
    /\ black_since # None
    /\ clock - black_since >= black_pattern_sec
    /\ result.kind = "return"
    /\ result.status = "STARTED"

\* C7: a probe that returns a verdict although neither condition ever lasted
\* its threshold returns TIMEOUT, not before observe_timeout has passed, and
\* with the role counts of the latest inspect_state call.
C7_TimeoutCarriesLastCounts ==
    (/\ pc \in {"finally", "print"}
     /\ result.kind = "return"
     /\ result.status # "ERROR"
     /\ ~obs.rSat
     /\ ~obs.bSat)
        => (/\ result.status = "TIMEOUT"
            /\ clock - start >= observe_timeout
            /\ result.state = obs.last)

C7_Witness ==
    /\ Verdicted("TIMEOUT")
    /\ obs.rPolls >= 1
    /\ ~obs.rSat
    /\ result.state["renderer"] = 0
    /\ result.state["main"] = 1

\* the positions of the log that hold event e of probe i
At(e, i) == {k \in 1..Len(events) : events[k] = Ev(e, i)}

\* C8: once the result of a probe that launched a child has reached main (by a
\* return or by an exception), the log holds, after the launch, the kill of
\* the child, then the teardown, and only then the return and the record.
C8_CleanupBeforeResult ==
    \A i \in 1..Len(parsed_versions) :
        (At("launch", i) # {} /\ (i < idx \/ (i = idx /\ pc = "print"))) =>
            \E l \in At("launch", i), a \in At("kill", i), b \in At("teardown", i) :
                /\ l < a
                /\ a < b
                /\ \A r \in At("return", i) \cup At("record", i) : b < r
                /\ At("return", i) # {}

C8_Witness ==
    /\ pc = "print"
    /\ idx = 2
    /\ result.kind = "raise"
    /\ proc = "killed"
    /\ out[2][3] \in {"STARTED", "BLACK_PATTERN", "TIMEOUT"}

\* C9: a probe that finds no WeMod.exe returns ERROR with a detail that holds
\* the word "missing", has launched no child, and kill_wemod_processes ran
\* before it and runs again after its record.
C9_MissingExecutable ==
    /\ (pc = "print" /\ ~exe_exists) =>
          /\ result.kind = "return"
          /\ result.status = "ERROR"
          /\ HasWord(result.msg, "missing")
          /\ proc = "none"
          /\ At("launch", idx) = {}
          /\ At("teardown", idx) # {}
    /\ pc = "done" =>
          \A i \in 1..Len(parsed_versions) :
              (out[i + 1][3] = "ERROR" /\ HasWord(out[i + 1][4], "missing")) =>
                  /\ At("launch", i) = {}
                  /\ \E r \in At("record", i) :
                     \E t \in 1..Len(events) : t > r /\ events[t].e = "teardown"

C9_Witness ==
    /\ pc = "done"
    /\ \E i \in 1..Len(parsed_versions) :
          /\ out[i + 1][3] = "ERROR"
          /\ HasWord(out[i + 1][4], "missing")
          /\ At("launch", i) = {}

\* what parse_version_entry makes of the well-formed entries of EntryPool
ExpectedVersion ==
    (EntryWand :> <<KindWand, <<"1">>>>)
        @@ (EntryWeMod :> <<KindWeMod, <<"1", ":", "2">>>>)

Statuses == {"STARTED", "BLACK_PATTERN", "TIMEOUT", "ERROR"}

\* C10 as stated: when the program has ended, the output is the header and
\* then one record per entry given, whatever failed.
C10_OneRecordPerEntry ==
    pc \in {"done", "aborted"} =>
        /\ Len(out) = Len(versions) + 1
        /\ out[1] = Header

\* C10 amended: when every entry is well-formed the program ends with the
\* header and then exactly one record per entry, in the order of the entries,
\* whatever failed in download, installation, launch or probing; when an entry
\* is malformed the program ends before the header with no record at all.
C10_OneRecordPerParsedEntry ==
    /\ pc = "done" =>
          /\ Len(out) = Len(versions) + 1
          /\ out[1] = Header
          /\ \A k \in 1..Len(versions) :
                /\ versions[k] \in DOMAIN ExpectedVersion
                /\ out[k + 1][1] = ExpectedVersion[versions[k]][1]
                /\ out[k + 1][2] = ExpectedVersion[versions[k]][2]
                /\ out[k + 1][3] \in Statuses
                /\ Cardinality(At("record", k)) = 1
    /\ pc = "aborted" =>
          /\ out = <<>>
          /\ \E k \in 1..Len(versions) : versions[k] \notin DOMAIN ExpectedVersion
    /\ (\A k \in 1..Len(versions) : versions[k] \in DOMAIN ExpectedVersion) =>
          pc # "aborted"
    /\ \A a, b \in 1..Len(events) :
          (a < b /\ events[a].e = "record" /\ events[b].e = "record") =>
              events[a].i < events[b].i

C10_Witness ==
    /\ pc = "done"
    /\ Len(versions) = 2
    /\ versions[1] # versions[2]
    /\ out[2][3] = "ERROR"
    /\ out[3][3] = "TIMEOUT"

\* C11: a version whose download or installation raised has an ERROR record
\* and launched nothing, the run has not ended with it: the loop stands at the
\* next version or has begun it, and a finished run has one record for every
\* version.  With two versions, the first failing in provisioning and the
\* second returning TIMEOUT, the output is the header, ERROR, TIMEOUT.
C11_ProvisioningFailureIsolated ==
    /\ \A i \in 1..(Len(out) - 1) :
          out[i + 1][4] \in ProvisionErrors =>
              /\ out[i + 1][3] = "ERROR"
              /\ At("launch", i) = {}
              /\ Cardinality(At("record", i)) = 1
              /\ pc # "aborted"
              /\ \/ pc = "loop" /\ idx = i + 1
                 \/ At("teardown", i + 1) # {}
              /\ \A j \in 1..(Len(out) - 1) :
                    (j # i /\ out[j + 1][4] \notin ProvisionErrors) =>
                        At("return", j) # {}
              /\ pc = "done" => Len(out) = Len(parsed_versions) + 1
    /\ (/\ Len(parsed_versions) = 2
        /\ idx = 2
        /\ Len(out) >= 2
        /\ out[2][4] \in ProvisionErrors
        /\ Verdicted("TIMEOUT")) =>
            /\ pc = "finally" => out = <<Header, out[2]>>
            /\ out[2][3] = "ERROR"
    /\ (/\ pc = "done"
        /\ Len(parsed_versions) = 2
        /\ out[2][4] \in ProvisionErrors
        /\ out[3][4] = MsgTimeout) =>
            /\ Len(out) = 3
            /\ out[2][3] = "ERROR"
            /\ out[3][3] = "TIMEOUT"

C11_Witness ==
    /\ pc = "done"
    /\ Len(parsed_versions) = 2
    /\ out[2][4] \in ProvisionErrors
    /\ out[3][4] = MsgTimeout
    /\ At("launch", 2) # {}

\* C12: kill_wemod_processes is the first thing a run does after the header,
\* so it comes before every launch, and the last thing it does: when main has
\* ended, the log closes with the teardown of line 253, after every launch,
\* kill, return and record of every probe, whatever the records say.  (A run
\* that ends while parsing its entries starts no probe and logs nothing.)
C12_TeardownBracketsRun ==
    /\ events # <<>> => events[1] = Ev("teardown", 1)
    /\ \A l \in 1..Len(events) :
          events[l].e = "launch" =>
              \E t \in 1..(l - 1) : events[t].e = "teardown"
    /\ pc = "done" =>
          /\ events # <<>>
          /\ events[Len(events)] = Ev("teardown", Len(parsed_versions) + 1)
          /\ \A k \in 1..(Len(events) - 1) : events[k].i <= Len(parsed_versions)
          /\ \A i \in 1..Len(parsed_versions) : At("record", i) # {}
    /\ pc = "aborted" => events = <<>>

C12_Witness ==
    /\ pc = "done"
    /\ Len(parsed_versions) = 2
    /\ At("launch", 1) # {}
    /\ out[2][3] = "STARTED"
    /\ At("launch", 2) = {}
    /\ out[3][4] = <<"FileNotFoundError", "wine">>

\* C13: the polling loop always ends: a launched child is killed in the end,
\* polling never goes on later than one iteration past observe_timeout, and it
\* never goes on with a result in hand.  What quick_probe returns from the loop
\* is STARTED or BLACK_PATTERN, from a poll that began before the deadline, or
\* TIMEOUT, once observe_timeout has passed; and the result of a probe, once
\* set, stays as it is until main has printed it.
C13_ProbeTerminates ==
    /\ [](pc = "poll" =>
            /\ result = NoResult
            /\ clock - start <= observe_timeout + jitter)
    /\ []((pc = "finally" /\ result.kind = "return") =>
            /\ result.status \in {"STARTED", "BLACK_PATTERN", "TIMEOUT"}
            /\ result.status = "TIMEOUT" => clock - start >= observe_timeout
            /\ result.status # "TIMEOUT" => clock - start < observe_timeout + jitter)
    /\ [][result # NoResult => (result' = result \/ (pc = "print" /\ result' = NoResult))]_vars
    /\ (pc = "poll" ~> pc = "finally")
    /\ (proc = "running" ~> proc = "killed")

C13_Witness ==
    /\ pc = "finally"
    /\ result.kind = "return"
    /\ result.status = "TIMEOUT"
    /\ observe_timeout = MaxTimeout
    /\ clock - start = observe_timeout + jitter
    /\ jitter > 0

\* the positions of the log that hold an event e of any probe
Logged(e) == {k \in 1..Len(events) : events[k].e = e}

\* C14: at every moment at most one launched child has not been killed, and it
\* is the child of the probe that is running; the child of a later version is
\* launched only after the child of every earlier version was killed, the
\* teardown after it ran and the record of that version was printed.
C14_ProbesSequential ==
    /\ Cardinality(Logged("launch")) - Cardinality(Logged("kill")) =
          (IF proc = "running" THEN 1 ELSE 0)
    /\ \A i \in 1..Len(parsed_versions) : Cardinality(At("launch", i)) <= 1
    /\ \A l \in Logged("launch") :
          \A j \in 1..(events[l].i - 1) :
              /\ At("record", j) # {}
              /\ \A r \in At("record", j) : r < l
              /\ At("launch", j) # {} =>
                    \E a \in At("kill", j), b \in At("teardown", j), r \in At("record", j) :
                        /\ \A x \in At("launch", j) : x < a
                        /\ a < b
                        /\ b < r
                        /\ r < l

C14_Witness ==
    /\ pc = "poll"
    /\ proc = "running"
    /\ idx = 2
    /\ At("launch", 1) # {}
    /\ At("launch", 2) # {}
    /\ obs.rPolls >= 1

\* the role inspect_state is to give to each command line of CmdlinePool, "none"
\* for a command line that does not name the application
ExpectedRole ==
    (CmdKernel :> "none") @@ (CmdOtherRenderer :> "none")
        @@ (CmdWineWeMod :> "main") @@ (CmdWand :> "main")
        @@ (CmdRenderer :> "renderer") @@ (CmdGpu :> "gpu")
        @@ (CmdUtility :> "utility") @@ (CmdUtilityRenderer :> "renderer")
        @@ (CmdUtilityGpu :> "gpu")

\* the entries of the table that inspect_state is to count in the role r
Counted(r) ==
    {k \in 1..Len(procfs) :
        procfs[k].pid /\ procfs[k].readable /\ ExpectedRole[procfs[k].raw] = r}

\* C15: every readable process whose command line names the application is
\* counted in one role, the first of renderer, gpu, utility that its command
\* line marks and else main; so no count is negative and the four counts add
\* up to the number of these processes, and an entry that cannot be read or
\* does not name the application is counted nowhere.
C15_OneRolePerProcess ==
    pc = "inspected" =>
        /\ DOMAIN state = {"main", "renderer", "gpu", "utility"}
        /\ \A r \in DOMAIN state : state[r] >= 0 /\ state[r] = Cardinality(Counted(r))
        /\ state["main"] + state["renderer"] + state["gpu"] + state["utility"] =
              Cardinality({k \in 1..Len(procfs) :
                              /\ procfs[k].pid
                              /\ procfs[k].readable
                              /\ ExpectedRole[procfs[k].raw] # "none"})

C15_Witness ==
    /\ pc = "inspected"
    /\ Len(procfs) = 2
    /\ procfs[1] = [pid |-> TRUE, readable |-> FALSE, raw |-> CmdRenderer]
    /\ procfs[2] = [pid |-> TRUE, readable |-> TRUE, raw |-> CmdUtilityGpu]
    /\ state = [main |-> 0, renderer |-> 0, gpu |-> 1, utility |-> 0]

\* C16: from the launch on, and so after the arm statements of every poll,
\* each timer is armed exactly when the latest snapshot polled showed its
\* condition, and the time it holds is the time at which the first poll of the
\* present unbroken run armed it; before the first poll both are unarmed.
C16_TimersFollowCondition ==
    (pc \in {"poll", "finally", "print"} /\ proc # "none") =>
        /\ renderer_since # None <=> obs.rPolls >= 1
        /\ black_since # None <=> obs.bPolls >= 1
        /\ renderer_since = obs.rFrom
        /\ black_since = obs.bFrom
        /\ (obs.rPolls = 0 /\ obs.rFalseAt = None) =>
              (renderer_since = None /\ black_since = None)

C16_Witness ==
    /\ pc = "poll"
    /\ obs.rPolls = 2
    /\ renderer_since # None
    /\ clock - renderer_since > SleepTicks
    /\ obs.bBroken
    /\ black_since = None

\* C17: no snapshot shows both conditions, and at no moment of a probe, so
\* neither when the verdict checks run, are both timers armed: an armed
\* renderer timer means black_since is None.
C17_TimersNeverBothArmed ==
    /\ \A s \in Snapshots : ~(RendererCondition(s) /\ BlackCondition(s))
    /\ renderer_since # None => black_since = None
    /\ black_since # None => renderer_since = None

\* the poll that armed the renderer timer disarmed the black-pattern timer
C17_Witness ==
    /\ pc = "poll"
    /\ renderer_since # None
    /\ black_since = None
    /\ obs.rPolls = 1
    /\ obs.bBroken
    /\ obs.bFalseAt # None
    /\ obs.bFalseAt >= renderer_since
    /\ obs.rFalseAt # None
    /\ obs.rFalseAt >= start + SleepTicks

\* C18 as stated: STARTED and BLACK_PATTERN come from a poll whose loop
\* condition read less than observe_timeout since the start, and so never
\* with a threshold of observe_timeout or more, and never from a run whose
\* threshold is crossed at the deadline or later.
C18_ThresholdBeyondTimeoutUnreachable ==
    /\ (Verdicted("STARTED") \/ Verdicted("BLACK_PATTERN")) =>
          (obs.begun # None /\ obs.begun - start < observe_timeout)
    /\ Verdicted("STARTED") =>
          /\ renderer_stable_sec < observe_timeout
          /\ obs.rFrom + renderer_stable_sec < start + observe_timeout
    /\ Verdicted("BLACK_PATTERN") =>
          /\ black_pattern_sec < observe_timeout
          /\ obs.bFrom + black_pattern_sec < start + observe_timeout

\* C18 amended: STARTED and BLACK_PATTERN come from a poll whose loop
\* condition read less than observe_timeout since the start; the verdict check
\* of that poll reads the clock anew, up to `jitter` later, so the verdict is
\* out of reach when the threshold is observe_timeout + jitter or more, and a
\* run whose threshold is crossed only that late ends in TIMEOUT.
C18_VerdictFromPollBeforeDeadline ==
    /\ (Verdicted("STARTED") \/ Verdicted("BLACK_PATTERN")) =>
          /\ obs.begun # None
          /\ obs.begun - start < observe_timeout
          /\ clock <= obs.begun + jitter
    /\ Verdicted("STARTED") =>
          /\ renderer_stable_sec < observe_timeout + jitter
          /\ obs.rFrom + renderer_stable_sec < start + observe_timeout + jitter
    /\ Verdicted("BLACK_PATTERN") =>
          /\ black_pattern_sec < observe_timeout + jitter
          /\ obs.bFrom + black_pattern_sec < start + observe_timeout + jitter
    /\ (/\ pc = "finally"
        /\ result.kind = "return"
        /\ renderer_stable_sec >= observe_timeout + jitter
        /\ black_pattern_sec >= observe_timeout + jitter) =>
            result.status = "TIMEOUT"

\* renderer > 0 in every poll from the first on, a threshold the run cannot
\* reach before the deadline, TIMEOUT
C18_Witness ==
    /\ Verdicted("TIMEOUT")
    /\ renderer_stable_sec >= observe_timeout
    /\ renderer_since = start
    /\ obs.rPolls >= 2
    /\ ~obs.rBroken
    /\ clock - renderer_since >= renderer_stable_sec

\* C19: the snapshot in the detail of STARTED is the one of the poll that
\* returned it and has renderer > 0; the one of BLACK_PATTERN has main > 0,
\* gpu > 0, utility > 0 and renderer = 0; the one of TIMEOUT is taken by the
\* step that ends the loop, which neither arms nor disarms a timer nor counts
\* as a poll, whatever that snapshot shows.
C19_DetailMatchesVerdict ==
    /\ [](Verdicted("STARTED") =>
            /\ result.state = state
            /\ result.state["renderer"] > 0)
    /\ [](Verdicted("BLACK_PATTERN") =>
            /\ result.state = state
            /\ result.state["main"] > 0
            /\ result.state["gpu"] > 0
            /\ result.state["utility"] > 0
            /\ result.state["renderer"] = 0)
    /\ [](Verdicted("TIMEOUT") =>
            /\ result.state = state
            /\ result.state = obs.last
            /\ clock - start >= observe_timeout)
    /\ [][(pc = "poll" /\ result'.kind = "return" /\ result'.status = "TIMEOUT") =>
            /\ renderer_since' = renderer_since
            /\ black_since' = black_since
            /\ obs'.rPolls = obs.rPolls
            /\ obs'.bPolls = obs.bPolls
            /\ obs'.rSat = obs.rSat
            /\ obs'.bSat = obs.bSat]_vars

\* a TIMEOUT whose snapshot shows a renderer, with the renderer timer unarmed
C19_Witness ==
    /\ Verdicted("TIMEOUT")
    /\ result.state["renderer"] > 0
    /\ renderer_since = None
    /\ obs.rFalseAt # None
    /\ black_since # None

====
